---- MODULE Spec2Model ----
(***************************************************************************)
(* Report Resolution & Presentation Engine of pwgray/report-generator.     *)
(*                                                                         *)
(* Spec        : one ReportViewer instance (components/DataSourceView.tsx, *)
(*               second ReportViewer definition, lines 651-1109): its      *)
(*               props, its React state and the acquisitions in flight.    *)
(* BuilderSpec : the filter editor of the ReportBuilder                    *)
(*               (unnamed/part_007) with its type-operator matrix.         *)
(* SelectionSpec : the column selection of the ReportBuilder and the       *)
(*               formatting that each selected column carries.             *)
(* ServiceSpec : datasourceService.fetchTableData and the query request    *)
(*               that it posts, for the calls of any caller.               *)
(* RenderSpec  : the table that ReportViewer.renderVisuals produces from   *)
(*               the rows on display: header labels (getAliasForField)     *)
(*               and cell texts.                                           *)
(* SourceSpec  : the ReportBuilder opened on a new or a stored report: the  *)
(*               data source select, the column checkboxes, Add Filter,    *)
(*               visibility and chart type.                                *)
(* EditSpec    : the filter editor of the ReportBuilder with the value     *)
(*               inputs of each filter.                                    *)
(* ReferenceSpec : the edits of the ReportBuilder that choose a table or   *)
(*               a view: column checkboxes and filter columns.             *)
(* AppSpec     : the App (FEATURE_TESTING_SUMMARY.md lines 331-760): the   *)
(*               current user, the reports list and the calls of the       *)
(*               reports API in flight, which may overlap.                 *)
(* AppInTurnSpec : the App when each operation that calls the API starts   *)
(*               after the one before has settled.                         *)
(***************************************************************************)
EXTENDS Integers, Sequences, FiniteSets, TLC

VARIABLES
    report,         \* prop: the ReportConfig on display
    dataSource,     \* prop: the DataSource of the report (defined = FALSE: undefined)
    mounted,        \* the mount effect has run
    data,           \* useState data
    loading,        \* useState loading
    error,          \* useState error (Null or a message)
    dataOrigin,     \* useState dataOrigin ("live", "ai" or "null")
    recordsCount,   \* useState recordsCount (-1 models null)
    reqs,           \* every fetchData call so far, in initiation order
    savesPending,   \* onSaveDataSource promises not yet settled
    idPending,      \* the host attached a saved id, not yet rendered into the props
    config,         \* ReportBuilder: useState config (dataSourceId, filters, ...)
    apiKey,         \* geminiService: the configured Gemini key ("": none)
    sent,           \* datasourceService: the fetchTableData calls and the requests sent
    rendered,       \* ReportViewer: the table that renderVisuals last produced
    currentUser,    \* App: useState currentUser
    reports,        \* App: useState reports
    storedSources,  \* App: useState dataSources, as the ids of the sources
    currentView,    \* App: useState currentView
    selectedReportId, \* App: useState selectedReportId ("null": null)
    draftId,        \* App: the id of the config of the open ReportBuilder ("null": not open)
    alert,          \* App: the text of the last window.alert ("": none yet)
    calls           \* App: every call of the reports and datasources API so far

viewerVars == <<report, dataSource, mounted, data, loading, error, dataOrigin,
                recordsCount, reqs, savesPending, idPending>>
appVars == <<currentUser, reports, storedSources, currentView, selectedReportId,
             draftId, alert, calls>>
vars == <<report, dataSource, mounted, data, loading, error, dataOrigin,
          recordsCount, reqs, savesPending, idPending, config, apiKey, sent, rendered,
          appVars>>

----------------------------------------------------------------------------
(* Bounds *)

MaxCols == 2        \* selected columns per report
MaxFetches == 2     \* fetchData calls per viewer session
MaxSaves == 1       \* overlapping Save Datasource clicks
MaxFilters == 1     \* filters in the builder
MaxCalls == 1       \* fetchTableData calls of a caller of the service
MaxMutations == 2   \* calls of the reports and datasources API per App session

----------------------------------------------------------------------------
(* Generic helpers for Array.prototype functions *)

\* Array.prototype.find, as the index of the first element satisfying P (0: undefined)
Find(arr, P(_)) ==
    IF \E i \in DOMAIN arr : P(arr[i])
    THEN CHOOSE i \in DOMAIN arr : P(arr[i]) /\ \A j \in 1..(i - 1) : ~P(arr[j])
    ELSE 0

RECURSIVE Dedup(_)
\* Array.from(new Set(arr)): distinct elements in first-occurrence order
Dedup(arr) ==
    IF arr = <<>> THEN <<>>
    ELSE LET init == Dedup(SubSeq(arr, 1, Len(arr) - 1))
             last == arr[Len(arr)]
         IN IF \E i \in DOMAIN init : init[i] = last THEN init ELSE Append(init, last)

\* Array.prototype.map
Map(arr, F(_)) == [i \in DOMAIN arr |-> F(arr[i])]

\* an argument that a call leaves out (undefined), and one that it passes
Absent == <<>>
Passed(x) == <<x>>

\* the null of useState<string | null>
Null == [text |-> "null", ref |-> "", kind |-> "", names |-> <<>>]

----------------------------------------------------------------------------
(* Schema model (types.ts) and the schemas the viewer is run against *)

ColumnTypes == {"string", "number", "date", "boolean", "currency"}

ColumnDef(id, name, type, alias) ==
    [id |-> id, name |-> name, type |-> type, alias |-> alias]

TableDef(id, name, exposed, columns) ==
    [id |-> id, name |-> name, exposed |-> exposed, columns |-> columns]

UsersColumns ==
    << ColumnDef("col1", "id", "number", ""),
       ColumnDef("col2", "name", "string", "Full Name"),
       ColumnDef("col3", "created", "date", "") >>

OrdersColumns ==
    << ColumnDef("col1", "id", "number", ""),
       ColumnDef("col4", "total", "currency", "") >>

ViewColumns ==
    << ColumnDef("vcol1", "id", "number", ""),
       ColumnDef("vcol2", "active", "boolean", "") >>

DataSourceTypes == {"postgres", "mysql", "snowflake", "custom"}

SavedId == "ds1"

\* a second table that is either a duplicate entry of users or the orders table
SecondTable(name, exposed) ==
    TableDef("table2", name, exposed,
             IF name = "users" THEN UsersColumns ELSE OrdersColumns)

DataSource(id, type, t1exposed, t2name, t2exposed) ==
    [defined |-> TRUE, id |-> id, type |-> type,
     tables |-> << TableDef("table1", "users", t1exposed, UsersColumns),
                   SecondTable(t2name, t2exposed) >>,
     views |-> << TableDef("view1", "v_users", TRUE, ViewColumns) >>]

Undefined ==
    [defined |-> FALSE, id |-> "", type |-> "", tables |-> <<>>, views |-> <<>>]

\* no source; stored postgres sources of every schema; stored sources of every
\* type; a postgres source that is not yet stored
DataSources ==
    {Undefined} \cup
    { DataSource(SavedId, "postgres", e1, n2, e2) :
        e1 \in BOOLEAN, n2 \in {"users", "orders"}, e2 \in BOOLEAN } \cup
    { DataSource(SavedId, type, TRUE, "orders", TRUE) : type \in DataSourceTypes } \cup
    { DataSource("", "postgres", TRUE, "orders", TRUE) }

----------------------------------------------------------------------------
(* Report model (types.ts) and the reports the viewer is opened for *)

ReportColumn(tableId, columnId) == [tableId |-> tableId, columnId |-> columnId]

FilterCondition(id, tableId, columnId, operator, value) ==
    [id |-> id, tableId |-> tableId, columnId |-> columnId,
     operator |-> operator, value |-> value]

SortCondition(tableId, columnId, direction) ==
    [tableId |-> tableId, columnId |-> columnId, direction |-> direction]

\* references by id, by name, to a missing column, to a missing table
ColumnChoices ==
    { ReportColumn("table1", "col1"), ReportColumn("users", "name"),
      ReportColumn("table1", "nope"), ReportColumn("table2", "col1"),
      ReportColumn("view1", "vcol1"), ReportColumn("ghost", "col1") }

SelectedColumnLists ==
    UNION { [1..n -> ColumnChoices] : n \in 0..MaxCols }

\* no filter, a legal filter, a filter on a missing column, an illegal operator,
\* each with or without a sort and under some visualization
Queries ==
    { [filters |-> <<>>, sorts |-> <<>>, visualization |-> "table"],
      [filters |-> << FilterCondition("f1", "table1", "col1", "gt", "100") >>,
       sorts |-> << SortCondition("table1", "col2", "asc") >>, visualization |-> "bar"],
      [filters |-> << FilterCondition("f1", "table1", "nope", "equals", "1") >>,
       sorts |-> <<>>, visualization |-> "line"],
      [filters |-> << FilterCondition("f1", "table1", "col1", "starts_with", "a") >>,
       sorts |-> << SortCondition("table1", "col1", "desc") >>, visualization |-> "pie"] }

Reports ==
    { [id |-> "report1", selectedColumns |-> sc, filters |-> q.filters,
       sorts |-> q.sorts, visualization |-> q.visualization] :
        sc \in SelectedColumnLists, q \in Queries }

----------------------------------------------------------------------------
(* ReportViewer.fetchData: the synchronous part, up to the delegate call *)

\* a user-visible message: the fixed text, and what the template interpolates
Message(text, ref, kind, names) ==
    [text |-> text, ref |-> ref, kind |-> kind, names |-> names]

NoDataSource == Message("No data source configured for this report.", "", "", <<>>)
NoColumnsSelected == Message("No columns selected for this report.", "", "", <<>>)
AcquisitionFailed == Message("Failed to fetch live data for this report.", "", "", <<>>)
MultiSourceViolation(names) ==
    Message("Live data fetch supports reports which select columns from a single table or view only.",
            "", "", names)
NotExposed(isView, ids) ==
    Message("Target not found or not exposed in datasource.",
            "", IF isView THEN "view" ELSE "table", ids)
ColumnNotFound(columnId, isView, tableName) ==
    Message("Column not found.", columnId, IF isView THEN "view" ELSE "table", <<tableName>>)

LiveLimit == 1000000
AiRowCount == 100

isAiDatasourceAnyType(ds) == ds.defined

isAiDatasourceUnguarded(ds) == ~ds.defined \/ ds.type = "custom"

\* line 674: dataSource?.type === 'custom'
isAiDatasource(ds) == ds.defined /\ ds.type = "custom"

\* line 700: Array.from(new Set(report.selectedColumns.map(c => c.tableId)))
tableIds(rep) == Dedup(Map(rep.selectedColumns, LAMBDA c : c.tableId))

\* lines 716-720: the name of the table, else view, whose id is the reference
allTableViewNames(ds, rep) ==
    Map(tableIds(rep), LAMBDA id :
        LET t == Find(ds.tables, LAMBDA x : x.id = id)
            v == Find(ds.views, LAMBDA x : x.id = id)
        IN IF t # 0 THEN ds.tables[t].name
           ELSE IF v # 0 THEN ds.views[v].name
           ELSE "UNKNOWN")

uniqueNames(ds, rep) == Dedup(allTableViewNames(ds, rep))

\* lines 712-733: more than one reference that is not a duplicate id of one name
isMultiSource(ds, rep) ==
    /\ Len(tableIds(rep)) # 1
    /\ ~(Len(uniqueNames(ds, rep)) = 1 /\ uniqueNames(ds, rep)[1] # "UNKNOWN")

\* one step of the loop of lines 743-755 for one reference
lookupOne(ds, tableId) ==
    LET t == Find(ds.tables, LAMBDA x : x.id = tableId \/ x.name = tableId)
        v == Find(ds.views, LAMBDA x : x.id = tableId \/ x.name = tableId)
    IN IF t # 0 THEN [found |-> TRUE, isView |-> FALSE, table |-> ds.tables[t]]
       ELSE IF v # 0 THEN [found |-> TRUE, isView |-> TRUE, table |-> ds.views[v]]
       ELSE [found |-> FALSE, isView |-> FALSE, table |-> TableDef("", "", FALSE, <<>>)]

\* lines 739-755: the first reference that finds a table or a view
lookupTable(ds, rep) ==
    LET ids == tableIds(rep)
        hit == Find(ids, LAMBDA id : lookupOne(ds, id).found)
    IN IF hit # 0 THEN lookupOne(ds, ids[hit]) ELSE lookupOne(ds, "")

isUsableIgnoringExposure(m) == m.found

\* line 757: the negation of !table || table.exposed === false
isUsable(m) == m.found /\ m.table.exposed # FALSE

findColumnByIdOnly(table, columnId) ==
    Find(table.columns, LAMBDA cc : cc.id = columnId)

\* lines 766 and 770: the column of the table with that id or that name
findColumn(table, columnId) ==
    Find(table.columns, LAMBDA cc : cc.id = columnId \/ cc.name = columnId)

colsAsReferenced(table, rep) ==
    Map(rep.selectedColumns, LAMBDA rc : rc.columnId)

\* lines 764-781: the physical names of the selected columns
cols(table, rep) ==
    Map(rep.selectedColumns, LAMBDA rc : table.columns[findColumn(table, rc.columnId)].name)

NoArgs ==
    [source |-> Undefined, table |-> "", columns |-> <<>>, limit |-> 0,
     filters |-> <<>>, sorts |-> Absent]

Settled(message) == [delegate |-> "none", error |-> message, args |-> NoArgs]

\* lines 668-792: what one fetchData call does before it first awaits;
\* line 678 hands the whole report to generateReportData, line 792 calls
\* fetchTableData(dsArg, table.name, cols, 1000000, filters) with five arguments
Dispatch(ds, rep) ==
    IF isAiDatasource(ds)
    THEN [delegate |-> "ai", error |-> Null,
          args |-> [source |-> ds, table |-> "", columns |-> <<>>,
                    limit |-> AiRowCount, filters |-> rep.filters,
                    sorts |-> Passed(rep.sorts)]]
    ELSE IF ~ds.defined THEN Settled(NoDataSource)
    ELSE IF Len(rep.selectedColumns) = 0 THEN Settled(NoColumnsSelected)
    ELSE IF isMultiSource(ds, rep)
    THEN Settled(MultiSourceViolation(allTableViewNames(ds, rep)))
    ELSE LET m == lookupTable(ds, rep) IN
         IF ~isUsable(m)
         THEN Settled(NotExposed(m.isView, tableIds(rep)))
         ELSE LET miss == Find(rep.selectedColumns,
                               LAMBDA rc : findColumn(m.table, rc.columnId) = 0) IN
              IF miss # 0
              THEN Settled(ColumnNotFound(rep.selectedColumns[miss].columnId,
                                          m.isView, m.table.name))
              ELSE [delegate |-> "live", error |-> Null,
                    args |-> [source |-> ds, table |-> m.table.name,
                              columns |-> cols(m.table, rep),
                              limit |-> LiveLimit, filters |-> rep.filters,
                              sorts |-> Absent]]

----------------------------------------------------------------------------
(* ReportBuilder (unnamed/part_007): the schema it edits against *)

\* exposed tables, a table that is not exposed and shares a column id with an
\* exposed one, and a view with a column of a type outside ColumnType
BuilderSource ==
    [defined |-> TRUE, id |-> SavedId, type |-> "postgres",
     tables |-> << TableDef("table1", "users", TRUE, UsersColumns),
                   TableDef("table2", "orders", TRUE, OrdersColumns),
                   TableDef("table3", "secrets", FALSE,
                            << ColumnDef("col2", "token", "string", ""),
                               ColumnDef("col5", "locked", "boolean", "") >>) >>,
     views |-> << TableDef("view1", "v_users", TRUE,
                           << ColumnDef("vcol2", "active", "boolean", ""),
                              ColumnDef("vcol3", "payload", "json", "") >>) >>]

\* part_005 lines 232-236: a second source, the same schema under another id
SecondSource == [BuilderSource EXCEPT !.id = "ds2"]

dataSources == << BuilderSource, SecondSource >>

\* lines 14-27: the config of a report created in the builder
NewReport ==
    [id |-> "report-new", dataSourceId |-> dataSources[1].id, name |-> "New Report",
     description |-> "", visibility |-> "private",
     selectedColumns |-> <<>>, filters |-> <<>>, sorts |-> <<>>,
     visualization |-> "table",
     schedule |-> [enabled |-> FALSE, frequency |-> "weekly", time |-> "09:00"]]

\* line 31: dataSources.find(d => d.id === config.dataSourceId) (0: undefined)
selectedDs == Find(dataSources, LAMBDA d : d.id = config.dataSourceId)

\* lines 34-37
allTablesAndViews ==
    IF selectedDs # 0
    THEN dataSources[selectedDs].tables \o dataSources[selectedDs].views
    ELSE <<>>

\* lines 132-136: c?.type || 'string'
getColumnType(tableId, colId) ==
    LET t == Find(allTablesAndViews, LAMBDA x : x.id = tableId) IN
    IF t = 0 THEN "string"
    ELSE LET c == Find(allTablesAndViews[t].columns, LAMBDA x : x.id = colId) IN
         IF c = 0 THEN "string" ELSE allTablesAndViews[t].columns[c].type

getOperatorsForTypeNoCurrency(columnType) ==
    CASE columnType = "string" ->
           << "equals", "not_equals", "contains", "not_contains", "starts_with",
              "ends_with", "is_empty", "is_not_empty", "in" >>
      [] columnType = "number" ->
           << "equals", "not_equals", "gt", "gte", "lt", "lte", "between",
              "is_null", "is_not_null" >>
      [] columnType = "date" ->
           << "equals", "not_equals", "gt", "gte", "lt", "lte", "between",
              "is_null", "is_not_null", "today", "this_week", "this_month",
              "this_year" >>
      [] columnType = "boolean" ->
           << "equals", "is_null", "is_not_null" >>
      [] OTHER ->
           << "equals", "not_equals", "contains", "is_null", "is_not_null" >>

\* lines 139-198: the value of each option, in the order of the source
getOperatorsForType(columnType) ==
    CASE columnType = "string" ->
           << "equals", "not_equals", "contains", "not_contains", "starts_with",
              "ends_with", "is_empty", "is_not_empty", "in" >>
      [] columnType \in {"number", "currency"} ->
           << "equals", "not_equals", "gt", "gte", "lt", "lte", "between",
              "is_null", "is_not_null" >>
      [] columnType = "date" ->
           << "equals", "not_equals", "gt", "gte", "lt", "lte", "between",
              "is_null", "is_not_null", "today", "this_week", "this_month",
              "this_year" >>
      [] columnType = "boolean" ->
           << "equals", "is_null", "is_not_null" >>
      [] OTHER ->
           << "equals", "not_equals", "contains", "is_null", "is_not_null" >>

\* crypto.randomUUID(): an id that no filter of the config has
FilterIds == 1..MaxFilters

\* lines 93-108
addFilter(id) ==
    LET firstTable == Find(allTablesAndViews, LAMBDA t : t.exposed) IN
    /\ selectedDs # 0
    /\ firstTable # 0
    /\ Len(config.filters) < MaxFilters
    /\ \A i \in DOMAIN config.filters : config.filters[i].id # id
    /\ config' = [config EXCEPT !.filters =
                    Append(@, FilterCondition(id, allTablesAndViews[firstTable].id,
                                              allTablesAndViews[firstTable].columns[1].id,
                                              "equals", ""))]
    /\ UNCHANGED <<viewerVars, apiKey, sent, rendered, appVars>>

\* lines 562-566: the options of the column <select> of a filter
columnOptions ==
    UNION { { allTablesAndViews[t].columns[c].id : c \in DOMAIN allTablesAndViews[t].columns } :
            t \in { x \in DOMAIN allTablesAndViews : allTablesAndViews[x].exposed } }

\* lines 553-556: the last table or view that has a column with that id
tableOfColumn(tid, columnId) ==
    LET holders == { t \in DOMAIN allTablesAndViews :
                       Find(allTablesAndViews[t].columns, LAMBDA c : c.id = columnId) # 0 }
    IN IF holders = {} THEN tid
       ELSE allTablesAndViews[CHOOSE t \in holders : \A u \in holders : u <= t].id

\* lines 549-561: onChange of the column <select> of filter idx
changeFilterColumn(idx, columnId) ==
    /\ idx \in DOMAIN config.filters
    /\ columnId \in columnOptions
    /\ config' = [config EXCEPT !.filters[idx] =
                    [@ EXCEPT !.columnId = columnId,
                              !.tableId = tableOfColumn(@.tableId, columnId)]]
    /\ UNCHANGED <<viewerVars, apiKey, sent, rendered, appVars>>

\* lines 535-536 and 572-578: the options of the operator <select> of filter idx
operatorOptions(idx) ==
    LET operators == getOperatorsForType(
                         getColumnType(config.filters[idx].tableId,
                                       config.filters[idx].columnId))
    IN { operators[i] : i \in DOMAIN operators }

\* lines 110-115 called from line 574: updateFilter(idx, 'operator', e.target.value)
updateFilterOperator(idx, value) ==
    /\ idx \in DOMAIN config.filters
    /\ value \in operatorOptions(idx)
    /\ config' = [config EXCEPT !.filters[idx].operator = value]
    /\ UNCHANGED <<viewerVars, apiKey, sent, rendered, appVars>>

\* lines 117-121
removeFilter(idx) ==
    /\ idx \in DOMAIN config.filters
    /\ config' = [config EXCEPT !.filters =
                    SubSeq(@, 1, idx - 1) \o SubSeq(@, idx + 1, Len(@))]
    /\ UNCHANGED <<viewerVars, apiKey, sent, rendered, appVars>>

----------------------------------------------------------------------------
(* ReportViewer: state transitions *)

\* one fetchData call: the delegate it awaits, how it settled, the message it
\* set and the rows it stored
Request(delegate, status, message, args) ==
    [delegate |-> delegate, status |-> status, error |-> message,
     args |-> args, rows |-> <<>>]

\* what a delegate may resolve to for the k-th acquisition: no rows, or its rows
Rows(k) == { <<>>, <<k>> }

\* the message of the errors that a delegate may reject with
Failures == { "Database connection failed", "Request failed (500): timeout" }

ApiKeys == { "", "gemini-key" }

\* geminiService lines 17-27: viteKey || nodeKey
getApiKey == apiKey

generateReportDataWithoutKeyCheck(k) == Rows(k)

\* geminiService lines 29-85: what generateReportData may resolve to for the
\* k-th acquisition; without a key it returns [] before it does anything else,
\* and an error of the model call is caught and gives [] as well
generateReportData(k) == IF getApiKey = "" THEN { <<>> } ELSE Rows(k)

\* what the awaited delegate of the k-th acquisition may resolve to
Outcomes(k) == IF reqs[k].delegate = "ai" THEN generateReportData(k) ELSE Rows(k)

\* the awaited delegate of the k-th acquisition may reject: fetchTableData
\* throws on a failed request, generateReportData only once it has a key
\* (geminiService lines 35-36 return before any call that can throw)
mayReject(k) == reqs[k].delegate = "live" \/ getApiKey # ""

catchMessageWithFailure(failure) ==
    Message("Failed to fetch live data for this report.", failure, "", <<>>)

\* lines 799-801: the message that the catch block sets for a caught error
catchMessage(failure) == AcquisitionFailed

\* lines 660-806, from the call to the first await or to the early return;
\* the finally block runs at once when no delegate is awaited
fetchData(ds, rep) ==
    LET d == Dispatch(ds, rep) IN
    /\ Len(reqs) < MaxFetches
    /\ recordsCount' = -1
    /\ IF d.delegate = "none"
       THEN /\ error' = d.error
            /\ data' = <<>>
            /\ loading' = FALSE
            /\ reqs' = Append(reqs, Request("none", "invalid", d.error, d.args))
       ELSE /\ error' = Null
            /\ loading' = TRUE
            /\ data' = data
            /\ reqs' = Append(reqs, Request(d.delegate, "pending", Null, d.args))
    /\ dataOrigin' = dataOrigin

\* lines 808-810: the effect of the first render
Mount ==
    /\ ~mounted
    /\ mounted' = TRUE
    /\ fetchData(dataSource, report)
    /\ UNCHANGED <<report, dataSource, savesPending, idPending, config, apiKey, sent, rendered, appVars>>

\* lines 1054-1056: the Refresh button, disabled while loading (Button, disabled || loading)
Refresh ==
    /\ mounted
    /\ ~loading
    /\ fetchData(dataSource, report)
    /\ UNCHANGED <<report, dataSource, mounted, savesPending, idPending, config, apiKey, sent, rendered, appVars>>

\* lines 678-683 and 792-797, then finally: the awaited delegate resolved
Resolve(k, rows) ==
    /\ reqs[k].status = "pending"
    /\ rows \in Outcomes(k)
    /\ data' = rows
    /\ dataOrigin' = reqs[k].delegate
    /\ recordsCount' = Len(rows)
    /\ loading' = FALSE
    /\ reqs' = [reqs EXCEPT ![k].status = "resolved", ![k].rows = rows]
    /\ UNCHANGED <<report, dataSource, mounted, error, savesPending, idPending, config, apiKey, sent, rendered, appVars>>

RejectKeepingData(k, failure) ==
    /\ reqs[k].status = "pending"
    /\ mayReject(k)
    /\ error' = catchMessage(failure)
    /\ data' = data
    /\ loading' = FALSE
    /\ reqs' = [reqs EXCEPT ![k].status = "rejected", ![k].error = catchMessage(failure)]
    /\ UNCHANGED <<report, dataSource, mounted, dataOrigin, recordsCount,
                   savesPending, idPending, config, apiKey, sent, rendered, appVars>>

RejectRetrying(k, failure) ==
    /\ reqs[k].status = "pending"
    /\ mayReject(k)
    /\ Len(reqs) < MaxFetches
    /\ error' = Null
    /\ data' = <<>>
    /\ loading' = TRUE
    /\ reqs' = Append([reqs EXCEPT ![k].status = "rejected",
                                   ![k].error = catchMessage(failure)],
                      [reqs[k] EXCEPT !.status = "pending"])
    /\ UNCHANGED <<report, dataSource, mounted, dataOrigin, recordsCount,
                   savesPending, idPending, config, apiKey, sent, rendered, appVars>>

\* lines 799-805: the awaited delegate rejected with an error of that message,
\* which the catch block writes to the console only
Reject(k, failure) ==
    /\ reqs[k].status = "pending"
    /\ mayReject(k)
    /\ error' = catchMessage(failure)
    /\ data' = <<>>
    /\ loading' = FALSE
    /\ reqs' = [reqs EXCEPT ![k].status = "rejected", ![k].error = catchMessage(failure)]
    /\ UNCHANGED <<report, dataSource, mounted, dataOrigin, recordsCount,
                   savesPending, idPending, config, apiKey, sent, rendered, appVars>>

isEphemeral == dataSource.defined /\ dataSource.id = ""

\* lines 1028-1034: the Save Datasource button of an unsaved source, up to the await
SaveDatasource ==
    /\ mounted
    /\ isEphemeral
    /\ savesPending < MaxSaves
    /\ loading' = TRUE
    /\ savesPending' = savesPending + 1
    /\ UNCHANGED <<report, dataSource, mounted, data, error, dataOrigin,
                   recordsCount, reqs, idPending, config, apiKey, sent, rendered, appVars>>

\* lines 1035-1041: onSaveDataSource settled; attached: the host stored the source
\* and pointed the report at it (App.handleSaveDataSourceFromViewer)
SaveSettled(attached) ==
    /\ savesPending > 0
    /\ savesPending' = savesPending - 1
    /\ loading' = FALSE
    /\ idPending' = (idPending \/ attached)
    /\ UNCHANGED <<report, dataSource, mounted, data, error, dataOrigin,
                   recordsCount, reqs, config, apiKey, sent, rendered, appVars>>

\* lines 808-810: the host re-renders with the saved source, dataSource?.id changed
IdentityChange ==
    /\ mounted
    /\ idPending
    /\ isEphemeral
    /\ dataSource' = [dataSource EXCEPT !.id = SavedId]
    /\ idPending' = FALSE
    /\ fetchData(dataSource', report)
    /\ UNCHANGED <<report, mounted, savesPending, config, apiKey, sent, rendered, appVars>>

\* App lines 340-344
MOCK_USERS ==
    << [id |-> "u1", name |-> "Alice Admin", role |-> "admin"],
       [id |-> "u2", name |-> "Bob Analyst", role |-> "user"],
       [id |-> "u3", name |-> "Charlie Viewer", role |-> "user"] >>

\* App lines 348-387: the App as constructed, nothing loaded and nothing done
AppIdle ==
    /\ currentUser = MOCK_USERS[1]
    /\ reports = <<>>
    /\ storedSources = <<>>
    /\ currentView = "dashboard"
    /\ selectedReportId = "null"
    /\ draftId = "null"
    /\ alert = ""
    /\ calls = <<>>

\* the table of a viewer that has rendered nothing yet
NotRendered == [headers |-> <<>>, cells |-> <<>>]

\* the viewer session is not open while the builder is
ViewerClosed ==
    /\ report = [id |-> "report1", selectedColumns |-> <<>>, filters |-> <<>>,
                 sorts |-> <<>>, visualization |-> "table"]
    /\ dataSource = Undefined
    /\ mounted = FALSE
    /\ data = <<>>
    /\ loading = FALSE
    /\ error = Null
    /\ dataOrigin = "null"
    /\ recordsCount = -1
    /\ reqs = <<>>
    /\ savesPending = 0
    /\ idPending = FALSE

Init ==
    /\ report \in Reports
    /\ dataSource \in DataSources
    /\ mounted = FALSE
    /\ data = <<>>
    /\ loading = FALSE
    /\ error = Null
    /\ dataOrigin = "null"
    /\ recordsCount = -1
    /\ reqs = <<>>
    /\ savesPending = 0
    /\ idPending = FALSE
    /\ config = NewReport
    /\ apiKey \in (IF isAiDatasource(dataSource) THEN ApiKeys ELSE {"gemini-key"})
    /\ sent = <<>>
    /\ rendered = NotRendered
    /\ AppIdle

DelegateResolves == \E k \in DOMAIN reqs : \E rows \in Rows(k) : Resolve(k, rows)

DelegateRejects == \E k \in DOMAIN reqs : \E failure \in Failures : Reject(k, failure)

SaveSettles == \E attached \in BOOLEAN : SaveSettled(attached)

Next ==
    \/ Mount
    \/ Refresh
    \/ DelegateResolves
    \/ DelegateRejects
    \/ SaveDatasource
    \/ SaveSettles
    \/ IdentityChange

Spec == Init /\ [][Next]_vars

InitBuilder ==
    /\ ViewerClosed
    /\ config = NewReport
    /\ apiKey = ""
    /\ sent = <<>>
    /\ rendered = NotRendered
    /\ AppIdle

AddsFilter == \E id \in FilterIds : addFilter(id)

ChangesFilterColumn ==
    \E idx \in DOMAIN config.filters : \E columnId \in columnOptions :
        changeFilterColumn(idx, columnId)

ChangesFilterOperator ==
    \E idx \in DOMAIN config.filters : \E value \in operatorOptions(idx) :
        updateFilterOperator(idx, value)

RemovesFilter == \E idx \in DOMAIN config.filters : removeFilter(idx)

NextBuilder ==
    \/ AddsFilter
    \/ ChangesFilterColumn
    \/ ChangesFilterOperator
    \/ RemovesFilter

BuilderSpec == InitBuilder /\ [][NextBuilder]_vars

----------------------------------------------------------------------------
(* ReportBuilder (unnamed/part_007): column selection and column formatting *)

\* lines 80 and 329-332: a date formatting
DateFormatting(format) == [type |-> "date", config |-> [format |-> format]]

DefaultDecimalPlaces == 2

getDefaultFormattingAsString(columnType) == [type |-> "string", config |-> [case |-> "none"]]

\* lines 78-91
getDefaultFormatting(columnType) ==
    CASE columnType = "date" -> DateFormatting("MM/DD/YYYY")
      [] columnType = "number" ->
           [type |-> "number",
            config |-> [decimalPlaces |-> DefaultDecimalPlaces, thousandSeparator |-> TRUE]]
      [] columnType = "currency" ->
           [type |-> "currency",
            config |-> [symbol |-> "$", decimalPlaces |-> DefaultDecimalPlaces,
                        thousandSeparator |-> TRUE, symbolPosition |-> "before"]]
      [] columnType = "boolean" -> [type |-> "boolean", config |-> [style |-> "true/false"]]
      [] OTHER -> [type |-> "string", config |-> [case |-> "none"]]

\* lines 50-66; formatting is an optional field of a selected column
toggleColumn(tableId, columnId) ==
    LET exists == Find(config.selectedColumns,
                       LAMBDA c : c.tableId = tableId /\ c.columnId = columnId)
        colType == getColumnType(tableId, columnId)
        defaultFormatting == getDefaultFormatting(colType)
    IN /\ IF exists # 0
          THEN config' = [config EXCEPT !.selectedColumns =
                            SubSeq(@, 1, exists - 1) \o SubSeq(@, exists + 1, Len(@))]
          ELSE /\ Len(config.selectedColumns) < MaxCols
               /\ config' = [config EXCEPT !.selectedColumns =
                                Append(@, [tableId |-> tableId, columnId |-> columnId,
                                           formatting |-> Passed(defaultFormatting)])]
       /\ UNCHANGED <<viewerVars, apiKey, sent, rendered, appVars>>

\* lines 67-76
updateColumnFormatting(tableId, columnId, formatting) ==
    /\ config' = [config EXCEPT !.selectedColumns =
                    Map(@, LAMBDA col :
                           IF col.tableId = tableId /\ col.columnId = columnId
                           THEN [col EXCEPT !.formatting = Passed(formatting)]
                           ELSE col)]
    /\ UNCHANGED <<viewerVars, apiKey, sent, rendered, appVars>>

\* lines 333-339: the options of the date format <select>
DateFormats ==
    { "MM/DD/YYYY", "DD/MM/YYYY", "YYYY-MM-DD", "MMM DD, YYYY", "MMMM DD, YYYY",
      "relative", "iso" }

\* lines 311-314 and 324: the date format <select> of selected column idx is shown
showsDateFormat(idx) ==
    LET col == config.selectedColumns[idx]
        colType == getColumnType(col.tableId, col.columnId)
        formatting == IF col.formatting # Absent THEN col.formatting[1]
                      ELSE getDefaultFormatting(colType)
    IN colType = "date" /\ formatting.type = "date"

\* lines 278-289: a checkbox of a column of an exposed table or view
TogglesColumn ==
    \E t \in { x \in DOMAIN allTablesAndViews : allTablesAndViews[x].exposed } :
    \E c \in DOMAIN allTablesAndViews[t].columns :
        toggleColumn(allTablesAndViews[t].id, allTablesAndViews[t].columns[c].id)

\* lines 325-340: onChange of the date format <select> of a selected column
ChangesDateFormat ==
    \E idx \in DOMAIN config.selectedColumns : \E format \in DateFormats :
        /\ showsDateFormat(idx)
        /\ updateColumnFormatting(config.selectedColumns[idx].tableId,
                                  config.selectedColumns[idx].columnId,
                                  DateFormatting(format))

NextSelection ==
    \/ TogglesColumn
    \/ ChangesDateFormat

SelectionSpec == InitBuilder /\ [][NextSelection]_vars

----------------------------------------------------------------------------
(* ReportBuilder (unnamed/part_007): the data source, the header and the
   visualization of the report *)

\* a stored report that the builder is opened for (initialReport, line 14);
\* its sort is one the builder cannot add (lines 664-669)
ExistingReport ==
    [id |-> "report1", dataSourceId |-> dataSources[1].id, name |-> "Sales",
     description |-> "totals per user", visibility |-> "public",
     selectedColumns |-> << [tableId |-> "table1", columnId |-> "col1",
                             formatting |-> Absent] >>,
     filters |-> << FilterCondition(1, "table1", "col1", "gt", "100") >>,
     sorts |-> << SortCondition("table1", "col2", "asc") >>,
     visualization |-> "bar",
     schedule |-> [enabled |-> TRUE, frequency |-> "daily", time |-> "09:00"]]

\* line 14: initialReport || a new report
InitialReports == { NewReport, ExistingReport }

handleDsChangeKeepingFilters(dsId) ==
    /\ config' = [config EXCEPT !.dataSourceId = dsId,
                                !.selectedColumns = <<>>,
                                !.sorts = <<>>]
    /\ UNCHANGED <<viewerVars, apiKey, sent, rendered, appVars>>

\* lines 39-48
handleDsChange(dsId) ==
    /\ config' = [config EXCEPT !.dataSourceId = dsId,
                                !.selectedColumns = <<>>,
                                !.filters = <<>>,
                                !.sorts = <<>>]
    /\ UNCHANGED <<viewerVars, apiKey, sent, rendered, appVars>>

\* line 267: the options of the Data Source <select>
dataSourceOptions == { dataSources[d].id : d \in DOMAIN dataSources }

\* lines 679-684: the chart type buttons
VisualizationTypes == {"table", "bar", "line", "pie"}

InitSource ==
    /\ ViewerClosed
    /\ config \in InitialReports
    /\ apiKey = ""
    /\ sent = <<>>
    /\ rendered = NotRendered
    /\ AppIdle

\* lines 263-268: onChange of the Data Source <select>, which fires when
\* another option is chosen
ChangesDataSource ==
    \E dsId \in dataSourceOptions \ {config.dataSourceId} : handleDsChange(dsId)

\* lines 215-226: the Private and Public buttons
SetsVisibility ==
    \E v \in {"private", "public"} :
        /\ config' = [config EXCEPT !.visibility = v]
        /\ UNCHANGED <<viewerVars, apiKey, sent, rendered, appVars>>

\* line 687: a chart type button
SetsVisualization ==
    \E type \in VisualizationTypes :
        /\ config' = [config EXCEPT !.visualization = type]
        /\ UNCHANGED <<viewerVars, apiKey, sent, rendered, appVars>>

NextSource ==
    \/ ChangesDataSource
    \/ TogglesColumn
    \/ AddsFilter
    \/ SetsVisibility
    \/ SetsVisualization

SourceSpec == InitSource /\ [][NextSource]_vars

----------------------------------------------------------------------------
(* ReportBuilder (unnamed/part_007): the values of a filter *)

\* line 538: the operators that take no value
ValuelessOperators ==
    {"is_null", "is_not_null", "is_empty", "is_not_empty",
     "today", "this_week", "this_month", "this_year"}

needsValueInput(idx) == config.filters[idx].operator \notin ValuelessOperators

\* line 539
needsTwoValues(idx) == config.filters[idx].operator = "between"

filterColumnType(idx) ==
    getColumnType(config.filters[idx].tableId, config.filters[idx].columnId)

\* lines 583-619: what the value input of filter idx can hand to updateFilter;
\* no input is rendered for a column of another type
valueOptions(idx) ==
    IF ~needsValueInput(idx) THEN {}
    ELSE CASE filterColumnType(idx) = "boolean" -> {"true", "false"}
           [] filterColumnType(idx) \in {"date", "number", "currency", "string"} ->
                {"", "10"}
           [] OTHER -> {}

\* lines 623-654: what the second input of filter idx can hand over
value2Options(idx) ==
    IF needsTwoValues(idx) /\ filterColumnType(idx) \in {"date", "number", "currency"}
    THEN {"", "20"}
    ELSE {}

\* lines 110-115 called from lines 588-617: updateFilter(idx, 'value', e.target.value)
updateFilterValue(idx, value) ==
    /\ idx \in DOMAIN config.filters
    /\ config' = [config EXCEPT !.filters[idx].value = value]
    /\ UNCHANGED <<viewerVars, apiKey, sent, rendered, appVars>>

\* lines 635-639 and 648-652: { ...newFilters[idx], value2: e.target.value }
updateFilterValue2(idx, value2) ==
    /\ idx \in DOMAIN config.filters
    /\ config' = [config EXCEPT !.filters[idx] =
                    [id |-> @.id, tableId |-> @.tableId, columnId |-> @.columnId,
                     operator |-> @.operator, value |-> @.value, value2 |-> value2]]
    /\ UNCHANGED <<viewerVars, apiKey, sent, rendered, appVars>>

EditsFilterValue ==
    \E idx \in DOMAIN config.filters : \E value \in valueOptions(idx) :
        updateFilterValue(idx, value)

EditsFilterValue2 ==
    \E idx \in DOMAIN config.filters : \E value2 \in value2Options(idx) :
        updateFilterValue2(idx, value2)

\* every edit of the Filters tab of a new report
NextEdit ==
    \/ AddsFilter
    \/ ChangesFilterColumn
    \/ ChangesFilterOperator
    \/ EditsFilterValue
    \/ EditsFilterValue2
    \/ RemovesFilter

EditSpec == InitBuilder /\ [][NextEdit]_vars

\* the edits of a new report that choose a table or a view: the column
\* checkboxes, Add Filter and the column <select> of a filter
NextReference ==
    \/ TogglesColumn
    \/ AddsFilter
    \/ ChangesFilterColumn

ReferenceSpec == InitBuilder /\ [][NextReference]_vars

----------------------------------------------------------------------------
(* App (FEATURE_TESTING_SUMMARY.md lines 331-760): users, reports and the
   handlers that call the reports API *)

\* the fields of a ReportConfig that the App handlers read or write
AppReport(id, ownerId, name, dataSourceId, created_at) ==
    [id |-> id, ownerId |-> ownerId, name |-> name,
     dataSourceId |-> dataSourceId, created_at |-> created_at]

NoReport == AppReport("", "", "", "", "")

\* crypto.randomUUID() of the builder (part_007 line 15) draws from these
ReportIds == {"r1", "r2"}

\* lines 361-383: what listReports loaded: nothing, or a report of Bob
LoadedReports ==
    { <<>>, << AppReport("r1", "u2", "Sales", "ds1", "2024-01-01") >> }

\* one call of the API: the handler's arguments, the reports of the render
\* that created the handler (its closure) and the user of that render
ApiCall(kind, id, payload, seen, by) ==
    [kind |-> kind, id |-> id, payload |-> payload, seen |-> seen, by |-> by,
     status |-> "pending"]

\* lines 486-488
canModifyReport(r) == r.ownerId = currentUser.id \/ currentUser.role = "admin"

\* the config that the open builder hands to onSave: the stored report with
\* an edited name, or a new report (part_007 lines 14-27, ownerId '')
builderConfig ==
    LET f == Find(reports, LAMBDA r : r.id = draftId) IN
    IF f # 0 THEN [reports[f] EXCEPT !.name = "edited"]
    ELSE AppReport(draftId, "", "edited", "ds1", "draft")

handleSaveReportUnchecked(rep) ==
    LET e == Find(reports, LAMBDA r : r.id = rep.id)
        reportToSave ==
            [rep EXCEPT !.ownerId = IF e # 0 THEN reports[e].ownerId ELSE currentUser.id,
                           !.created_at = IF e # 0 THEN reports[e].created_at ELSE "now"]
    IN /\ Len(calls) < MaxMutations
       /\ calls' = Append(calls, ApiCall(IF e # 0 THEN "update" ELSE "create",
                                         rep.id, reportToSave, reports, currentUser.id))
       /\ UNCHANGED alert

handleSaveReportAsCurrentUser(rep) ==
    LET e == Find(reports, LAMBDA r : r.id = rep.id)
        reportToSave ==
            [rep EXCEPT !.ownerId = currentUser.id,
                           !.created_at = IF e # 0 THEN reports[e].created_at ELSE "now"]
    IN IF e # 0 /\ reports[e].ownerId # currentUser.id /\ currentUser.role # "admin"
       THEN /\ alert' = "You do not have permission to modify this report."
            /\ UNCHANGED calls
       ELSE /\ Len(calls) < MaxMutations
            /\ calls' = Append(calls, ApiCall(IF e # 0 THEN "update" ELSE "create",
                                              rep.id, reportToSave, reports,
                                              currentUser.id))
            /\ UNCHANGED alert

\* lines 425-442, up to the await of updateReport or createReport
handleSaveReport(rep) ==
    LET e == Find(reports, LAMBDA r : r.id = rep.id)
        reportToSave ==
            [rep EXCEPT !.ownerId = IF e # 0 THEN reports[e].ownerId ELSE currentUser.id,
                           !.created_at = IF e # 0 THEN reports[e].created_at ELSE "now"]
    IN IF e # 0 /\ reports[e].ownerId # currentUser.id /\ currentUser.role # "admin"
       THEN /\ alert' = "You do not have permission to modify this report."
            /\ UNCHANGED calls
       ELSE /\ Len(calls) < MaxMutations
            /\ calls' = Append(calls, ApiCall(IF e # 0 THEN "update" ELSE "create",
                                              rep.id, reportToSave, reports,
                                              currentUser.id))
            /\ UNCHANGED alert

\* lines 467-472 and 481-483, up to the await of deleteReport; confirmed: the
\* answer to window.confirm
handleDeleteReport(id, confirmed) ==
    LET f == Find(reports, LAMBDA r : r.id = id) IN
    IF f # 0 /\ (reports[f].ownerId = currentUser.id \/ currentUser.role = "admin")
    THEN IF confirmed
         THEN /\ Len(calls) < MaxMutations
              /\ calls' = Append(calls, ApiCall("delete", id, NoReport, reports,
                                                currentUser.id))
              /\ UNCHANGED alert
         ELSE UNCHANGED <<calls, alert>>
    ELSE /\ alert' = "You do not have permission to delete this report."
         /\ UNCHANGED calls

\* lines 570-582 with 390-392: the viewer's onSaveDataSource for the report r
\* of the render, up to the await of createDatasource
handleSaveDataSourceFromViewer(r) ==
    /\ Len(calls) < MaxMutations
    /\ calls' = Append(calls, ApiCall("createDatasource", r.id, NoReport, reports,
                                      currentUser.id))
    /\ UNCHANGED alert

\* lines 443-448 and 473, 393-394 and 583-585: the awaited call resolved; the
\* reports API echoes the payload, createDatasource answers with the id savedId
resolved(k, savedId) ==
    LET c == calls[k] IN
    /\ c.status = "pending"
    /\ calls' = [calls EXCEPT ![k].status = "ok"]
    /\ CASE c.kind = "update" ->
              /\ reports' = Map(c.seen, LAMBDA r : IF r.id = c.id THEN c.payload ELSE r)
              /\ currentView' = "reports"
              /\ draftId' = "null"
              /\ UNCHANGED storedSources
         [] c.kind = "create" ->
              /\ reports' = Append(c.seen, c.payload)
              /\ currentView' = "reports"
              /\ draftId' = "null"
              /\ UNCHANGED storedSources
         [] c.kind = "delete" ->
              /\ reports' = SelectSeq(c.seen, LAMBDA r : r.id # c.id)
              /\ UNCHANGED <<currentView, draftId, storedSources>>
         [] OTHER ->
              /\ storedSources' = Append(storedSources, savedId)
              /\ reports' = IF savedId # ""
                            THEN Map(reports, LAMBDA rep :
                                     IF rep.id = c.id
                                     THEN [rep EXCEPT !.dataSourceId = savedId]
                                     ELSE rep)
                            ELSE reports
              /\ UNCHANGED <<currentView, draftId>>
    /\ UNCHANGED <<currentUser, selectedReportId, alert>>

\* lines 449-453, 474-478, 395-399 and 586-589: the awaited call rejected
rejected(k) ==
    LET c == calls[k] IN
    /\ c.status = "pending"
    /\ calls' = [calls EXCEPT ![k].status = "failed"]
    /\ alert' = CASE c.kind \in {"update", "create"} -> "Failed to save report to server."
                  [] c.kind = "delete" -> "Failed to delete report from server."
                  [] OTHER -> "Failed to persist datasource to the server."
    /\ UNCHANGED <<currentUser, reports, storedSources, currentView,
                   selectedReportId, draftId>>

\* an id that no report and no call of the session has
isFreshId(id) ==
    /\ \A i \in DOMAIN reports : reports[i].id # id
    /\ \A k \in DOMAIN calls : calls[k].id # id

\* the backend answers createDatasource with or without an id
SavedIds == {"", "ds9"}

noCallPending == \A k \in DOMAIN calls : calls[k].status # "pending"

\* the App after the effect of lines 361-383 loaded the reports
InitApp ==
    /\ ViewerClosed
    /\ config = NewReport
    /\ apiKey = ""
    /\ sent = <<>>
    /\ rendered = NotRendered
    /\ currentUser = MOCK_USERS[1]
    /\ reports \in LoadedReports
    /\ storedSources = <<>>
    /\ currentView = "dashboard"
    /\ selectedReportId = "null"
    /\ draftId = "null"
    /\ alert = ""
    /\ calls = <<>>

appFrame == UNCHANGED <<viewerVars, config, apiKey, sent, rendered>>

\* lines 703-709: the Switch User <select>
SwitchesUser ==
    \E u \in DOMAIN MOCK_USERS :
        /\ MOCK_USERS[u] # currentUser
        /\ currentUser' = MOCK_USERS[u]
        /\ appFrame
        /\ UNCHANGED <<reports, storedSources, currentView, selectedReportId,
                       draftId, alert, calls>>

\* line 607: Create Report opens the builder on a new config
CreatesReport ==
    \E id \in ReportIds :
        /\ currentView = "reports"
        /\ isFreshId(id)
        /\ selectedReportId' = "null"
        /\ currentView' = "builder"
        /\ draftId' = id
        /\ appFrame
        /\ UNCHANGED <<currentUser, reports, storedSources, alert, calls>>

\* lines 462-465 from line 670: Edit, shown when canModifyReport(report)
handleEditReport ==
    \E i \in DOMAIN reports :
        /\ currentView = "reports"
        /\ canModifyReport(reports[i])
        /\ selectedReportId' = reports[i].id
        /\ currentView' = "builder"
        /\ draftId' = reports[i].id
        /\ appFrame
        /\ UNCHANGED <<currentUser, reports, storedSources, alert, calls>>

\* lines 457-460 from lines 650 and 667: Run
handleViewReport ==
    \E i \in DOMAIN reports :
        /\ currentView = "reports"
        /\ selectedReportId' = reports[i].id
        /\ currentView' = "viewer"
        /\ appFrame
        /\ UNCHANGED <<currentUser, reports, storedSources, draftId, alert, calls>>

\* the sidebar, onCancel of the builder (line 563) and onBack of the viewer
\* (line 592): setCurrentView('reports')
ShowsReports ==
    /\ currentView # "reports"
    /\ currentView' = "reports"
    /\ draftId' = "null"
    /\ appFrame
    /\ UNCHANGED <<currentUser, reports, storedSources, selectedReportId, alert, calls>>

\* line 562 with part_007 line 227: Save Report in the open builder
SavesReport ==
    /\ currentView = "builder"
    /\ draftId # "null"
    /\ handleSaveReport(builderConfig)
    /\ appFrame
    /\ UNCHANGED <<currentUser, reports, storedSources, currentView,
                   selectedReportId, draftId>>

\* line 671: Delete in the list of reports; the handler is called for any report
DeletesReport ==
    \E i \in DOMAIN reports : \E confirmed \in BOOLEAN :
        /\ currentView = "reports"
        /\ handleDeleteReport(reports[i].id, confirmed)
        /\ appFrame
        /\ UNCHANGED <<currentUser, reports, storedSources, currentView,
                       selectedReportId, draftId>>

\* lines 567-568 and 592: Save Datasource in the viewer of a report that exists
SavesDataSource ==
    \E i \in DOMAIN reports :
        /\ currentView = "viewer"
        /\ i = Find(reports, LAMBDA r : r.id = selectedReportId)
        /\ handleSaveDataSourceFromViewer(reports[i])
        /\ appFrame
        /\ UNCHANGED <<currentUser, reports, storedSources, currentView,
                       selectedReportId, draftId>>

CallResolves ==
    \E k \in DOMAIN calls :
    \E savedId \in (IF calls[k].kind = "createDatasource" THEN SavedIds ELSE {""}) :
        resolved(k, savedId) /\ appFrame

CallRejects == \E k \in DOMAIN calls : rejected(k) /\ appFrame

NextApp ==
    \/ SwitchesUser
    \/ CreatesReport
    \/ handleEditReport
    \/ handleViewReport
    \/ ShowsReports
    \/ SavesReport
    \/ DeletesReport
    \/ SavesDataSource
    \/ CallResolves
    \/ CallRejects

AppSpec == InitApp /\ [][NextApp]_vars

\* one operation at a time: a handler that calls the API starts when no call
\* is awaited
SavesReportAlone == noCallPending /\ SavesReport

DeletesReportAlone == noCallPending /\ DeletesReport

SavesDataSourceAlone == noCallPending /\ SavesDataSource

NextAppInTurn ==
    \/ SwitchesUser
    \/ CreatesReport
    \/ handleEditReport
    \/ handleViewReport
    \/ ShowsReports
    \/ SavesReportAlone
    \/ DeletesReportAlone
    \/ SavesDataSourceAlone
    \/ CallResolves
    \/ CallRejects

AppInTurnSpec == InitApp /\ [][NextAppInTurn]_vars

----------------------------------------------------------------------------
(* datasourceService.fetchTableData, called by any caller *)

DefaultLimit == 5000000

\* line 40: the parameter default limit = 5000000
limitOrDefault(limit) == IF limit = Absent THEN DefaultLimit ELSE limit[1]

\* the first argument: the id of a stored source, or a whole source
SourceId(id) == [typeof |-> "string", id |-> id, object |-> Undefined]
SourceObject(ds) == [typeof |-> "object", id |-> "", object |-> ds]

\* lines 51-53: the payload that is posted to /datasources/query
bodyPayload(dataSourceOrId, table, columns, limit) ==
    IF dataSourceOrId.typeof = "string"
    THEN [table |-> table, columns |-> columns, limit |-> limit,
          dataSourceId |-> dataSourceOrId.id]
    ELSE [table |-> table, columns |-> columns, limit |-> limit,
          dataSource |-> dataSourceOrId.object]

\* the argument lists of the calls: the source by id or as an object, with or
\* without a limit, and with or without filters and sorts after the limit
Calls ==
    { [dataSourceOrId |-> d, table |-> "users", columns |-> c, limit |-> l,
       filters |-> f, sorts |-> o] :
        d \in { SourceId("ds-1"),
                SourceObject(DataSource("", "postgres", TRUE, "orders", TRUE)) },
        c \in { << "id" >>, << "id", "name" >> },
        l \in { Absent, Passed(50), Passed(100) },
        f \in { Absent, Passed(<<>>),
                Passed(<< FilterCondition("f1", "table1", "col1", "equals", "test") >>) },
        o \in { Absent, Passed(<< SortCondition("table1", "col2", "asc") >>) } }

\* lines 40-58: fetchTableData binds its four parameters to the first four
\* arguments of the call and posts the payload
fetchTableData(call) ==
    /\ Len(sent) < MaxCalls
    /\ sent' = Append(sent,
                  [call |-> call, status |-> "pending",
                   body |-> bodyPayload(call.dataSourceOrId, call.table, call.columns,
                                        limitOrDefault(call.limit))])
    /\ UNCHANGED <<viewerVars, config, apiKey, rendered, appVars>>

\* lines 66-67: the response is ok and its body parses: the rows are returned
ResponseOk(i) ==
    /\ sent[i].status = "pending"
    /\ sent' = [sent EXCEPT ![i].status = "returned"]
    /\ UNCHANGED <<viewerVars, config, apiKey, rendered, appVars>>

\* lines 60-64 and 68-71: the response is not ok, or its body is not JSON
ResponseFailed(i) ==
    /\ sent[i].status = "pending"
    /\ sent' = [sent EXCEPT ![i].status = "thrown"]
    /\ UNCHANGED <<viewerVars, config, apiKey, rendered, appVars>>

InitService ==
    /\ ViewerClosed
    /\ config = NewReport
    /\ apiKey = ""
    /\ sent = <<>>
    /\ rendered = NotRendered
    /\ AppIdle

CallsFetchTableData == \E call \in Calls : fetchTableData(call)

ResponseArrives == \E i \in DOMAIN sent : ResponseOk(i)

ResponseFails == \E i \in DOMAIN sent : ResponseFailed(i)

NextService ==
    \/ CallsFetchTableData
    \/ ResponseArrives
    \/ ResponseFails

ServiceSpec == InitService /\ [][NextService]_vars

----------------------------------------------------------------------------
(* ReportViewer: the table that renderVisuals produces from data *)

\* a JavaScript value of a row: a string, a number, a boolean, null, or an
\* object given by its properties in insertion order
JsValue(type, str, num, bool, props) ==
    [type |-> type, str |-> str, num |-> num, bool |-> bool, props |-> props]

JsString(s) == JsValue("string", s, 0, FALSE, <<>>)
JsNumber(n) == JsValue("number", "", n, FALSE, <<>>)
JsBoolean(b) == JsValue("boolean", "", 0, b, <<>>)
JsNull == JsValue("null", "", 0, FALSE, <<>>)
JsObject(props) == JsValue("object", "", 0, FALSE, props)

\* the typeof operator (typeof null is 'object')
typeof(val) == IF val.type = "null" THEN "object" ELSE val.type

\* String(val)
String(val) ==
    CASE val.type = "string" -> val.str
      [] val.type = "number" -> ToString(val.num)
      [] val.type = "boolean" -> (IF val.bool THEN "true" ELSE "false")
      [] val.type = "null" -> "null"
      [] OTHER -> "[object Object]"

RECURSIVE JSONstringify(_)
RECURSIVE JSONmembers(_)

\* the members of an object literal: "key":value joined by commas
JSONmembers(props) ==
    IF props = <<>> THEN ""
    ELSE LET init == SubSeq(props, 1, Len(props) - 1)
             last == props[Len(props)]
         IN (IF init = <<>> THEN "" ELSE JSONmembers(init) \o ",")
            \o "\"" \o last.key \o "\":" \o JSONstringify(last.val)

\* JSON.stringify(val)
JSONstringify(val) ==
    CASE val.type = "string" -> "\"" \o val.str \o "\""
      [] val.type = "number" -> ToString(val.num)
      [] val.type = "boolean" -> (IF val.bool THEN "true" ELSE "false")
      [] val.type = "null" -> "null"
      [] OTHER -> "{" \o JSONmembers(val.props) \o "}"

renderCellAsString(val) == String(val)

\* lines 988 and 1098: typeof val === 'object' ? JSON.stringify(val) : String(val)
renderCell(val) == IF typeof(val) = "object" THEN JSONstringify(val) ELSE String(val)

RECURSIVE JoinDots(_)
\* a field name is kept as its split('.') segments; this is the string itself
JoinDots(segments) ==
    IF Len(segments) = 1 THEN segments[1]
    ELSE JoinDots(SubSeq(segments, 1, Len(segments) - 1)) \o "." \o segments[Len(segments)]

simpleNameVerbatim(fieldName) == JoinDots(fieldName)

\* line 830: fieldName.includes('.') ? fieldName.split('.').pop() : fieldName
simpleNameOf(fieldName) ==
    IF Len(fieldName) > 1 THEN fieldName[Len(fieldName)] ELSE JoinDots(fieldName)

\* lines 828-851: the label of a raw field name, from the props of the viewer
getAliasForField(fieldName) ==
    LET name == JoinDots(fieldName)
        simpleName == simpleNameOf(fieldName)
        reportCol == Find(report.selectedColumns,
                          LAMBDA rc : rc.columnId = simpleName \/ rc.columnId = name)
        ids == tableIds(report)
        hasTableId == dataSource.defined /\ Len(ids) = 1 /\ ids[1] # ""
        m == IF hasTableId THEN lookupOne(dataSource, ids[1]) ELSE lookupOne(Undefined, "")
        col == IF m.found
               THEN Find(m.table.columns,
                         LAMBDA cc : \/ cc.name = simpleName
                                     \/ cc.id = simpleName
                                     \/ (m.table.name \o "." \o cc.name) = name)
               ELSE 0
    IN IF reportCol # 0 /\ report.selectedColumns[reportCol].alias # ""
       THEN report.selectedColumns[reportCol].alias
       ELSE IF col # 0 /\ m.table.columns[col].alias # ""
       THEN m.table.columns[col].alias
       ELSE IF simpleName # "" THEN simpleName ELSE name

\* a selected column as the viewer gets it, with an alias ("": none) and
\* with or without a formatting
FormattedColumn(tableId, columnId, alias, formatting) ==
    [tableId |-> tableId, columnId |-> columnId, alias |-> alias,
     formatting |-> formatting]

\* a column by id with and without an alias, by name with an alias, a column
\* without any alias, a date column with a date formatting, a column of
\* another table
RenderColumns ==
    { FormattedColumn("table1", "col2", "Customer", Absent),
      FormattedColumn("table1", "col2", "", Absent),
      FormattedColumn("users", "name", "Customer", Absent),
      FormattedColumn("table1", "col1", "", Absent),
      FormattedColumn("table1", "col3", "", Passed(DateFormatting("MM/DD/YYYY"))),
      FormattedColumn("table2", "col4", "Total", Absent) }

RenderReports ==
    { [id |-> "report1", selectedColumns |-> sc, filters |-> <<>>, sorts |-> <<>>,
       visualization |-> "table"] :
        sc \in UNION { [1..n -> RenderColumns] : n \in 1..MaxCols } }

RenderSources ==
    { DataSource(SavedId, type, TRUE, "orders", TRUE) : type \in {"postgres", "custom"} }

\* the values of the cells of a row
ValueList ==
    << JsString("2024-01-15"), JsString("not-a-date"), JsNumber(42), JsBoolean(TRUE),
       JsNull, JsObject(<< [key |-> "a", val |-> JsNumber(1)] >>) >>

\* a row with those keys, in that order, its values taken from ValueList from r on
Row(keys, r) ==
    [i \in DOMAIN keys |->
        [key |-> keys[i], val |-> ValueList[((r + i - 2) % Len(ValueList)) + 1]]]

\* the keys of rows that the generative delegate may return: qualified names,
\* plain names, a name that no column has, a name that ends with a dot
AiFieldLists ==
    { << <<"users", "name">>, <<"users", "id">> >>,
      << <<"name">>, <<"bonus">> >>,
      << <<"users", "created">>, <<"x", "">> >>,
      << <<"id">>, <<"created">>, <<"total">> >> }

\* the data that an acquisition can have left on display: rows keyed by the
\* column names of the live call (line 792), or rows of the generative delegate
Datasets(ds, rep) ==
    IF isAiDatasource(ds)
    THEN { << Row(keys, r) >> : keys \in AiFieldLists, r \in DOMAIN ValueList }
    ELSE IF Dispatch(ds, rep).delegate = "live"
    THEN { << Row(Map(Dispatch(ds, rep).args.columns, LAMBDA c : << c >>), r) >> :
             r \in DOMAIN ValueList }
    ELSE {}

\* lines 917-996: the default branch of renderVisuals: one header per key of
\* the first row, one cell per value of each row
renderVisuals ==
    /\ mounted
    /\ ~loading
    /\ Len(data) # 0
    /\ report.visualization = "table"
    /\ rendered' =
          [headers |-> Map(data[1], LAMBDA field : getAliasForField(field.key)),
           cells |-> Map(data, LAMBDA row : Map(row, LAMBDA field : renderCell(field.val)))]
    /\ UNCHANGED <<viewerVars, config, apiKey, sent, appVars>>

\* a viewer whose acquisition has resolved with rows
InitRender ==
    /\ dataSource \in RenderSources
    /\ report \in RenderReports
    /\ data \in Datasets(dataSource, report)
    /\ mounted = TRUE
    /\ loading = FALSE
    /\ error = Null
    /\ dataOrigin = (IF isAiDatasource(dataSource) THEN "ai" ELSE "live")
    /\ recordsCount = Len(data)
    /\ reqs = << [Request(Dispatch(dataSource, report).delegate, "resolved", Null,
                          Dispatch(dataSource, report).args) EXCEPT !.rows = data] >>
    /\ savesPending = 0
    /\ idPending = FALSE
    /\ config = NewReport
    /\ apiKey = "gemini-key"
    /\ sent = <<>>
    /\ rendered = NotRendered
    /\ AppIdle

NextRender == renderVisuals

RenderSpec == InitRender /\ [][NextRender]_vars

----------------------------------------------------------------------------
(* Properties of the acquisition dispatcher (ReportViewer.fetchData) *)

\* C1: routing is exclusive: no acquisition against a source of type custom
\* calls the live query delegate, and no acquisition against a source of any
\* other type (or against no source) calls the generative delegate.
RoutingExclusive ==
    \A k \in DOMAIN reqs :
        /\ (dataSource.defined /\ dataSource.type = "custom") => reqs[k].delegate # "live"
        /\ (~dataSource.defined \/ dataSource.type # "custom") => reqs[k].delegate # "ai"

RoutingExclusiveWitness ==
    /\ dataSource.defined /\ dataSource.type = "custom"
    /\ \E k \in DOMAIN reqs : reqs[k].delegate = "ai" /\ reqs[k].status = "resolved"

\* C2: with selectedColumns = [] every acquisition against a source of any
\* type fails with NoColumnsSelected: no delegate is called, the message is
\* set and data is empty.
NoColumnsAlwaysFails ==
    (dataSource.defined /\ report.selectedColumns = <<>>) =>
        /\ \A k \in DOMAIN reqs :
              /\ reqs[k].delegate = "none"
              /\ reqs[k].error.text = "No columns selected for this report."
        /\ mounted => (error.text = "No columns selected for this report." /\ data = <<>>)

\* C3: with an undefined data source every acquisition fails with
\* NoDataSource: the message is set, data is the empty array and no delegate
\* is called, whatever the report contains.
NoDataSourceFails ==
    ~dataSource.defined =>
        /\ \A k \in DOMAIN reqs :
              /\ reqs[k].delegate = "none"
              /\ reqs[k].error.text = "No data source configured for this report."
        /\ mounted => (error.text = "No data source configured for this report."
                       /\ data = <<>> /\ ~loading)

NoDataSourceFailsWitness ==
    /\ ~dataSource.defined
    /\ report.selectedColumns # <<>>
    /\ report.filters # <<>>
    /\ Len(reqs) = 2
    /\ error.text = "No data source configured for this report."

\* a table reference resolved by id or by name, across tables then views (0: none)
ResolvedName(ref) ==
    LET t == { i \in DOMAIN dataSource.tables :
                 dataSource.tables[i].id = ref \/ dataSource.tables[i].name = ref }
        v == { i \in DOMAIN dataSource.views :
                 dataSource.views[i].id = ref \/ dataSource.views[i].name = ref }
    IN IF t # {} THEN dataSource.tables[CHOOSE i \in t : \A j \in t : i <= j].name
       ELSE IF v # {} THEN dataSource.views[CHOOSE i \in v : \A j \in v : i <= j].name
       ELSE "?"

TableRefs == { report.selectedColumns[i].tableId : i \in DOMAIN report.selectedColumns }

isLive == dataSource.defined /\ dataSource.type # "custom"

\* C4: for a live source, a report with two or more different tableId values
\* (ids or names) that all resolve to the same table/view never ends in
\* MultiSourceViolation; one whose tableId values resolve to two distinct
\* tables/views always does, with no delegate call.
DuplicateReferencesReconciled ==
    LET names == { ResolvedName(ref) : ref \in TableRefs }
        multi == "Live data fetch supports reports which select columns from a single table or view only."
    IN (isLive /\ Cardinality(TableRefs) >= 2 /\ "?" \notin names) =>
         \A k \in DOMAIN reqs :
            IF Cardinality(names) = 1
            THEN reqs[k].error.text # multi
            ELSE reqs[k].error.text = multi /\ reqs[k].delegate = "none"

\* C5: for a live source, when the table/view that the lookup matches for the
\* report's table reference has exposed = false, every acquisition that passes
\* the single-source check fails with NotExposed and empty data, and the live
\* delegate is never called.
UnexposedNeverQueried ==
    LET m == lookupTable(dataSource, report) IN
    (isLive /\ report.selectedColumns # <<>> /\ m.found /\ m.table.exposed = FALSE) =>
        /\ \A k \in DOMAIN reqs :
              /\ reqs[k].delegate = "none"
              /\ reqs[k].error.text \in
                   { "Target not found or not exposed in datasource.",
                     "Live data fetch supports reports which select columns from a single table or view only." }
              /\ Cardinality(TableRefs) = 1 =>
                   reqs[k].error.text = "Target not found or not exposed in datasource."
        /\ mounted => (data = <<>> /\ error.text # "null")

UnexposedNeverQueriedWitness ==
    /\ isLive
    /\ lookupTable(dataSource, report).found
    /\ lookupTable(dataSource, report).table.exposed = FALSE
    /\ Len(report.selectedColumns) = 2
    /\ error.text = "Target not found or not exposed in datasource."

\* the selected columns that match no column of the table by id or by name
Unmatched(table) ==
    { i \in DOMAIN report.selectedColumns :
        ~\E c \in DOMAIN table.columns :
            \/ table.columns[c].id = report.selectedColumns[i].columnId
            \/ table.columns[c].name = report.selectedColumns[i].columnId }

\* the acquisition reaches the column resolution of lines 763-781
ReachesColumns ==
    /\ isLive
    /\ report.selectedColumns # <<>>
    /\ ~isMultiSource(dataSource, report)
    /\ lookupTable(dataSource, report).found
    /\ lookupTable(dataSource, report).table.exposed

\* C6: for a live source, each selected column is looked up in the matched
\* table/view by id or by name: when all match, the live delegate is called;
\* when one matches neither, the acquisition fails with ColumnNotFound naming
\* the first such reference, data is empty and the live delegate is not called.
ColumnsResolvedByIdOrName ==
    LET table == lookupTable(dataSource, report).table
        miss == Unmatched(table)
    IN ReachesColumns =>
         /\ \A k \in DOMAIN reqs :
              IF miss = {}
              THEN reqs[k].delegate = "live"
              ELSE /\ reqs[k].delegate = "none"
                   /\ reqs[k].error.text = "Column not found."
                   /\ reqs[k].error.ref =
                        report.selectedColumns[CHOOSE i \in miss : \A j \in miss : i <= j].columnId
         /\ (mounted /\ miss # {}) => (data = <<>> /\ error.text = "Column not found.")

ColumnsResolvedByIdOrNameWitness ==
    /\ ReachesColumns
    /\ Len(report.selectedColumns) = 2
    /\ report.selectedColumns[1].columnId = "col1"
    /\ report.selectedColumns[2].columnId = "nope"
    /\ error.ref = "nope"
    /\ data = <<>>

\* C7: for a live source, every filter's column is resolved before dispatch:
\* when a filter references a column that the target table/view does not
\* have, the acquisition fails with ColumnNotFound and the live delegate is
\* not called.
FilterColumnsResolved ==
    LET table == lookupTable(dataSource, report).table IN
    (ReachesColumns /\
       \E f \in DOMAIN report.filters :
          ~\E c \in DOMAIN table.columns :
              \/ table.columns[c].id = report.filters[f].columnId
              \/ table.columns[c].name = report.filters[f].columnId) =>
        \A k \in DOMAIN reqs :
            reqs[k].delegate = "none" /\ reqs[k].error.text = "Column not found."

\* the filters of a request whose operator is outside the operator set of the
\* type of the column they resolve to in the target table/view
IllegalFilters(k) ==
    LET table == lookupTable(dataSource, report).table IN
    { f \in DOMAIN reqs[k].args.filters :
        \E c \in DOMAIN table.columns :
            /\ \/ table.columns[c].id = reqs[k].args.filters[f].columnId
               \/ table.columns[c].name = reqs[k].args.filters[f].columnId
            /\ \A o \in DOMAIN getOperatorsForType(table.columns[c].type) :
                 getOperatorsForType(table.columns[c].type)[o] # reqs[k].args.filters[f].operator }

\* C8: a filter whose operator is not in the operator set of its resolved
\* column's type is never forwarded to the acquisition delegate.
IllegalOperatorNeverForwarded ==
    \A k \in DOMAIN reqs : reqs[k].delegate # "none" => IllegalFilters(k) = {}

\* C10: once every acquisition of a session with two or more has settled,
\* data, error and origin are those of the most recently initiated one,
\* whatever the completion order.
LatestAcquisitionWins ==
    LET last == reqs[Len(reqs)] IN
    (Len(reqs) >= 2 /\ \A k \in DOMAIN reqs : reqs[k].status # "pending") =>
        /\ data = last.rows
        /\ error = last.error
        /\ last.status = "resolved" => dataOrigin = last.delegate

----------------------------------------------------------------------------
(* Properties of the type-operator matrix (ReportBuilder.getOperatorsForType) *)

\* the matrix of legal filter operators per column type
operatorsFor(T) ==
    CASE T = "string" ->
           { "equals", "not_equals", "contains", "not_contains", "starts_with",
             "ends_with", "is_empty", "is_not_empty", "in" }
      [] T \in {"number", "currency"} ->
           { "equals", "not_equals", "gt", "gte", "lt", "lte", "between",
             "is_null", "is_not_null" }
      [] T = "date" ->
           { "equals", "not_equals", "gt", "gte", "lt", "lte", "between",
             "is_null", "is_not_null", "today", "this_week", "this_month", "this_year" }
      [] T = "boolean" -> { "equals", "is_null", "is_not_null" }
      [] OTHER -> { "equals", "not_equals", "contains", "is_null", "is_not_null" }

\* C9: for every column type and for an unknown type, getOperatorsForType
\* returns a non-empty, duplicate-free list that equals the row of the matrix;
\* string-only operators never appear for number, currency, date or boolean,
\* relative-date operators appear only for date; and the operator of a filter
\* that the operator select set is one of the row of its column's type.
OperatorMatrix ==
    /\ \A T \in ColumnTypes \cup {"json"} :
         LET ops == getOperatorsForType(T) IN
         /\ Len(ops) > 0
         /\ \A i, j \in DOMAIN ops : i # j => ops[i] # ops[j]
         /\ { ops[i] : i \in DOMAIN ops } = operatorsFor(T)
         /\ T \in {"number", "currency", "date", "boolean"} =>
              \A i \in DOMAIN ops :
                 ops[i] \notin {"contains", "starts_with", "ends_with", "is_empty", "in"}
         /\ T # "date" =>
              \A i \in DOMAIN ops :
                 ops[i] \notin {"today", "this_week", "this_month", "this_year"}
    /\ \A idx \in DOMAIN config.filters :
         operatorOptions(idx) =
            operatorsFor(getColumnType(config.filters[idx].tableId,
                                       config.filters[idx].columnId))

OperatorMatrixWitness ==
    \E idx \in DOMAIN config.filters :
        /\ config.filters[idx].columnId = "col4"
        /\ getColumnType(config.filters[idx].tableId, config.filters[idx].columnId) = "currency"
        /\ config.filters[idx].operator = "between"

----------------------------------------------------------------------------
(* Properties of the error paths of ReportViewer.fetchData *)

\* C11: every error kind ends the acquisition attempt with a user-visible
\* message and an empty result set: the step in which an attempt settles with
\* an error (a validation error before any delegate call, or a rejected
\* delegate) leaves error non-null and data = [], also when rows of an earlier
\* successful attempt were on display, and error and data stay so until an
\* attempt is started or settles.
ErrorEndsAttemptEmpty ==
    [][ /\ (\E k \in DOMAIN reqs' :
               /\ reqs'[k].status \in {"invalid", "rejected"}
               /\ (k \notin DOMAIN reqs \/ reqs[k].status = "pending"))
            => (error' # Null /\ error'.text # "null" /\ error'.text # ""
                /\ data' = <<>>)
        /\ reqs' = reqs => (error' = error /\ data' = data) ]_vars

ErrorEndsAttemptEmptyWitness ==
    \E j, k \in DOMAIN reqs :
        /\ j < k
        /\ reqs[j].status = "resolved"
        /\ reqs[j].rows # <<>>
        /\ reqs[k].status = "rejected"
        /\ error.text = "Failed to fetch live data for this report."
        /\ data = <<>>

\* C12: when the awaited delegate rejects, the attempt ends as
\* AcquisitionFailed: whatever the failure text of the delegate, the error on
\* display is the one fixed generic message, no part of which is a failure
\* text of the delegate, and data is the empty array.
RejectionShowsGenericMessage ==
    [][ \A k \in DOMAIN reqs :
          (reqs[k].status = "pending" /\ reqs'[k].status = "rejected") =>
             /\ error'.text = "Failed to fetch live data for this report."
             /\ error'.names = <<>>
             /\ \A failure \in { "Database connection failed",
                                  "Request failed (500): timeout" } :
                   failure \notin {error'.text, error'.ref, error'.kind}
             /\ reqs'[k].error = error'
             /\ data' = <<>> ]_vars

RejectionShowsGenericMessageWitness ==
    \E k \in DOMAIN reqs :
        /\ reqs[k].delegate = "live"
        /\ reqs[k].status = "rejected"
        /\ error.text = "Failed to fetch live data for this report."
        /\ data = <<>>
        /\ ~loading

\* C13: for a live source that passes validation, the live delegate is called
\* with the table name, one column name per selected column, a limit, the
\* report's filters as the filters argument and the report's sorts as the
\* sorts argument, for every report.
LiveCallCarriesFiltersAndSorts ==
    \A k \in DOMAIN reqs :
        reqs[k].delegate = "live" =>
            /\ reqs[k].args.table # ""
            /\ Len(reqs[k].args.columns) = Len(report.selectedColumns)
            /\ reqs[k].args.limit > 0
            /\ reqs[k].args.filters = report.filters
            /\ reqs[k].args.sorts = <<report.sorts>>

\* C17: a custom-source acquisition without a configured API key ends as a
\* valid empty result: the generative delegate resolves to [] and never
\* rejects, and the viewer shows error = null and data = [], with the origin
\* 'ai' and a record count of 0 once the acquisitions have resolved.
MissingKeyGivesEmptyResult ==
    (dataSource.defined /\ dataSource.type = "custom" /\ apiKey = "") =>
        /\ \A k \in DOMAIN reqs :
              /\ reqs[k].delegate = "ai"
              /\ reqs[k].status \in {"pending", "resolved"}
              /\ reqs[k].rows = <<>>
        /\ error = Null
        /\ data = <<>>
        /\ (reqs # <<>> /\ \A k \in DOMAIN reqs : reqs[k].status = "resolved") =>
              (dataOrigin = "ai" /\ recordsCount = 0 /\ ~loading)

MissingKeyGivesEmptyResultWitness ==
    /\ dataSource.defined /\ dataSource.type = "custom"
    /\ apiKey = ""
    /\ Len(reqs) = 2
    /\ \A k \in DOMAIN reqs : reqs[k].status = "resolved"
    /\ dataOrigin = "ai"
    /\ error = Null /\ data = <<>>

----------------------------------------------------------------------------
(* Properties of the query request (datasourceService.fetchTableData) *)

\* C14: whenever fetchTableData is called with filters and sorts, the body of
\* the query request it sends holds those filters and those sorts, next to
\* the table, the columns and the limit of the call.
BodyCarriesFiltersAndSorts ==
    \A i \in DOMAIN sent :
        (sent[i].call.filters # <<>> /\ sent[i].call.sorts # <<>>) =>
            /\ sent[i].body.table = sent[i].call.table
            /\ sent[i].body.columns = sent[i].call.columns
            /\ sent[i].call.limit # <<>> => sent[i].body.limit = sent[i].call.limit[1]
            /\ "filters" \in DOMAIN sent[i].body
            /\ "sorts" \in DOMAIN sent[i].body
            /\ sent[i].body.filters = sent[i].call.filters[1]
            /\ sent[i].body.sorts = sent[i].call.sorts[1]

----------------------------------------------------------------------------
(* Properties of the rendered table (getAliasForField and the cells) *)

\* the tables and views of the data source on display
SchemaTables ==
    { dataSource.tables[i] : i \in DOMAIN dataSource.tables } \cup
    { dataSource.views[i] : i \in DOMAIN dataSource.views }

\* no alias can be found for the field: no selected column of the report has
\* one, and no column of the schema with the field's name has one
NoAliasAnywhere(key) ==
    /\ \A j \in DOMAIN report.selectedColumns : report.selectedColumns[j].alias = ""
    /\ \A t \in SchemaTables : \A c \in DOMAIN t.columns :
          (t.columns[c].name \in { key[n] : n \in DOMAIN key } \cup { JoinDots(key) }
           \/ t.columns[c].id \in { key[n] : n \in DOMAIN key } \cup { JoinDots(key) })
             => t.columns[c].alias = ""

\* the name without its qualifier: what follows the last dot, or the whole
\* name when nothing follows it
Unqualified(key) == IF key[Len(key)] # "" THEN key[Len(key)] ELSE JoinDots(key)

\* C15 (as stated): getAliasForField gives a label for every raw field name,
\* dotted names and names of no column included, and when no alias is found
\* on the report or in the schema the label is the raw field name verbatim.
LabelIsRawNameVerbatim ==
    rendered # NotRendered =>
        /\ Len(rendered.headers) = Len(data[1])
        /\ \A i \in DOMAIN rendered.headers :
              NoAliasAnywhere(data[1][i].key) =>
                  rendered.headers[i] = JoinDots(data[1][i].key)

\* C15 (amended): getAliasForField gives a label for every raw field name,
\* dotted names and names of no column included, and when no alias is found
\* on the report or in the schema the label is the unqualified raw field
\* name: the part after the last dot of a dotted name, and the name verbatim
\* when it has no dot or nothing follows its last dot.
LabelIsUnqualifiedRawName ==
    rendered # NotRendered =>
        /\ Len(rendered.headers) = Len(data[1])
        /\ \A i \in DOMAIN rendered.headers :
              /\ rendered.headers[i] # ""
              /\ NoAliasAnywhere(data[1][i].key) =>
                    rendered.headers[i] = Unqualified(data[1][i].key)

LabelIsUnqualifiedRawNameWitness ==
    /\ rendered # NotRendered
    /\ \A j \in DOMAIN report.selectedColumns : report.selectedColumns[j].alias = ""
    /\ Len(data[1]) = 2
    /\ data[1][2].key = <<"users", "id">>
    /\ NoAliasAnywhere(data[1][2].key)
    /\ rendered.headers[2] = "id"

\* the selected column refers to that column of that table or view, by id or by name
RefersTo(rc, t, c) ==
    /\ t.id = rc.tableId \/ t.name = rc.tableId
    /\ t.columns[c].id = rc.columnId \/ t.columns[c].name = rc.columnId

\* C16: label precedence: for a returned field that is the physical name of a
\* column to which a selected column refers (by id or by name), the label is
\* the explicit alias of the (first such) ReportColumn when it has one,
\* otherwise the alias of the schema column, otherwise the unqualified raw
\* field name.
LabelPrecedence ==
    rendered # NotRendered =>
        \A i \in DOMAIN rendered.headers :
        \A t \in SchemaTables : \A c \in DOMAIN t.columns :
            LET refs == { j \in DOMAIN report.selectedColumns :
                            RefersTo(report.selectedColumns[j], t, c) }
                first == CHOOSE j \in refs : \A n \in refs : j <= n
            IN (refs # {} /\ data[1][i].key = << t.columns[c].name >>) =>
                   rendered.headers[i] =
                      IF report.selectedColumns[first].alias # ""
                      THEN report.selectedColumns[first].alias
                      ELSE IF t.columns[c].alias # "" THEN t.columns[c].alias
                      ELSE t.columns[c].name

\* the field is the physical name of a column to which that selected column refers
Corresponds(rc, key) ==
    \E t \in SchemaTables : \E c \in DOMAIN t.columns :
        RefersTo(rc, t, c) /\ key = << t.columns[c].name >>

\* C18: a value of a date column with formatting {format: 'MM/DD/YYYY'} is
\* displayed as month/day/year: the raw value '2024-01-15' is rendered as
\* '01/15/2024', and the raw value 'not-a-date' is rendered unchanged.
DateColumnsFormatted ==
    rendered # NotRendered =>
        \A r \in DOMAIN data : \A i \in DOMAIN data[r] :
            (\E j \in DOMAIN report.selectedColumns :
                /\ report.selectedColumns[j].formatting =
                      << [type |-> "date", config |-> [format |-> "MM/DD/YYYY"]] >>
                /\ Corresponds(report.selectedColumns[j], data[r][i].key)) =>
              /\ data[r][i].val = JsString("2024-01-15") => rendered.cells[r][i] = "01/15/2024"
              /\ data[r][i].val = JsString("not-a-date") => rendered.cells[r][i] = "not-a-date"

\* the plain string form of a value, and the JSON text of a structured one
PlainText(val) ==
    CASE val.type = "string" -> val.str
      [] val.type = "number" /\ val.num = 42 -> "42"
      [] val.type = "boolean" -> (IF val.bool THEN "true" ELSE "false")
      [] val.type = "null" -> "null"
      [] val = JsObject(<< [key |-> "a", val |-> JsNumber(1)] >>) -> "{\"a\":1}"

\* C19: for a selected column without a formatting the formatter is the
\* identity: each returned value is rendered as its plain string form, and a
\* structured (object) value as its JSON stringification.
UnformattedCellsAreIdentity ==
    rendered # NotRendered =>
        /\ Len(rendered.cells) = Len(data)
        /\ \A r \in DOMAIN data : \A i \in DOMAIN data[r] :
              (\E j \in DOMAIN report.selectedColumns :
                  /\ report.selectedColumns[j].formatting = <<>>
                  /\ Corresponds(report.selectedColumns[j], data[r][i].key)) =>
                rendered.cells[r][i] = PlainText(data[r][i].val)

UnformattedCellsAreIdentityWitness ==
    /\ rendered # NotRendered
    /\ dataSource.type = "postgres"
    /\ Len(report.selectedColumns) = 2
    /\ report.selectedColumns[1].formatting = <<>>
    /\ report.selectedColumns[2].formatting = <<>>
    /\ data[1][1].val.type = "object" /\ rendered.cells[1][1] = "{\"a\":1}"
    /\ data[1][2].val.type = "string" /\ rendered.cells[1][2] = "2024-01-15"

----------------------------------------------------------------------------
(* Properties of the column selection (ReportBuilder.toggleColumn) *)

\* the type that the schema of the builder's source gives the column of that
\* id in the table or view of that id
SchemaTypeOf(tableId, columnId) ==
    LET all == BuilderSource.tables \o BuilderSource.views
        types == UNION { { all[t].columns[c].type :
                             c \in { n \in DOMAIN all[t].columns :
                                       all[t].columns[n].id = columnId } } :
                         t \in { x \in DOMAIN all : all[x].id = tableId } }
    IN CHOOSE T \in types : TRUE

\* C20: when toggleColumn selects a column that was not selected, the
\* ReportColumn it appends carries the default formatting of the column's
\* type and of nothing else: date -> format MM/DD/YYYY; number -> 2 decimals
\* with thousands separator; currency -> symbol '$' before the amount, 2
\* decimals, thousands separator; boolean -> style true/false; string or an
\* unknown type -> case none.
FreshColumnGetsTypeDefault ==
    [][ Len(config'.selectedColumns) = Len(config.selectedColumns) + 1 =>
          LET rc == config'.selectedColumns[Len(config'.selectedColumns)]
              T == SchemaTypeOf(rc.tableId, rc.columnId)
          IN /\ SubSeq(config'.selectedColumns, 1, Len(config.selectedColumns))
                  = config.selectedColumns
             /\ rc.formatting =
                  << CASE T = "date" -> [type |-> "date", config |-> [format |-> "MM/DD/YYYY"]]
                       [] T = "number" ->
                            [type |-> "number",
                             config |-> [decimalPlaces |-> 2, thousandSeparator |-> TRUE]]
                       [] T = "currency" ->
                            [type |-> "currency",
                             config |-> [symbol |-> "$", symbolPosition |-> "before",
                                         decimalPlaces |-> 2, thousandSeparator |-> TRUE]]
                       [] T = "boolean" ->
                            [type |-> "boolean", config |-> [style |-> "true/false"]]
                       [] OTHER -> [type |-> "string", config |-> [case |-> "none"]] >> ]_vars

FreshColumnGetsTypeDefaultWitness ==
    /\ Len(config.selectedColumns) = 2
    /\ config.selectedColumns[1].columnId = "col4"
    /\ config.selectedColumns[1].formatting[1].type = "currency"
    /\ config.selectedColumns[1].formatting[1].config.symbol = "$"
    /\ config.selectedColumns[2].columnId = "vcol3"
    /\ config.selectedColumns[2].formatting[1].config = [case |-> "none"]

----------------------------------------------------------------------------
(* ReportViewer: when acquisitions start, what the live call names, and the
   loading flag *)

\* a step that opens the viewer: the effect of the first render
Opens == ~mounted /\ mounted'

\* a step taken in an open viewer whose Refresh button is enabled, with the
\* same report and the same data source
RefreshClicked ==
    mounted /\ mounted' /\ ~loading /\ dataSource' = dataSource /\ report' = report

\* a step in which the host hands the open viewer the same source under
\* another id (lines 808-810, the dependency dataSource?.id)
SourceIdChanged ==
    /\ mounted /\ mounted'
    /\ report' = report
    /\ dataSource'.id # dataSource.id
    /\ dataSource' = [dataSource EXCEPT !.id = dataSource'.id]

\* a step that starts an acquisition attempt: one request more, none settled
StartsAttempt ==
    /\ Len(reqs') = Len(reqs) + 1
    /\ SubSeq(reqs', 1, Len(reqs)) = reqs

\* C21: an acquisition attempt starts only when the viewer opens for a report
\* or the user clicks Refresh: the request list grows by one request at a
\* time, only in such a step, opening the viewer starts exactly one attempt,
\* and a step that settles an attempt (as failed or not) starts none.
AttemptsOnlyOnOpenOrRefresh ==
    [][ /\ reqs' # reqs => (StartsAttempt \/ Len(reqs') = Len(reqs))
        /\ StartsAttempt => (Opens \/ RefreshClicked)
        /\ Opens => StartsAttempt ]_vars

\* C21, amended: an acquisition attempt starts only when the viewer opens for
\* a report, the user clicks Refresh, or the host re-renders the open viewer
\* with another data source id (after Save Datasource stored the source); each
\* such step starts exactly one attempt and a step that settles an attempt
\* starts none, so a failed attempt is never retried by itself.
AttemptsOnlyOnOpenRefreshOrNewSourceId ==
    [][ /\ reqs' # reqs => (StartsAttempt \/ Len(reqs') = Len(reqs))
        /\ StartsAttempt => (Opens \/ RefreshClicked \/ SourceIdChanged)
        /\ Opens => StartsAttempt
        /\ SourceIdChanged => StartsAttempt ]_vars

\* the attempt of the first render failed, the user stored the unsaved source,
\* and the attempt that followed was started for the stored source
AttemptsOnlyOnOpenRefreshOrNewSourceIdWitness ==
    /\ Len(reqs) = 2
    /\ reqs[1].status = "rejected"
    /\ reqs[1].args.source.id = ""
    /\ reqs[2].delegate = "live"
    /\ reqs[2].args.source.id = "ds1"

\* C27: every call of the live delegate names one table or view of the data
\* source by its physical name, and its column list has one entry per selected
\* column, in selection order, each the physical name (not the id, not the
\* alias) of the column of that same table or view that the selected column
\* refers to.
LiveCallNamesOneTable ==
    \A k \in DOMAIN reqs :
        reqs[k].delegate = "live" =>
            LET a == reqs[k].args
                all == dataSource.tables \o dataSource.views
            IN /\ Len(a.columns) = Len(report.selectedColumns)
               /\ \E t \in DOMAIN all :
                    /\ a.table = all[t].name
                    /\ \A i \in DOMAIN report.selectedColumns :
                          \E c \in DOMAIN all[t].columns :
                              /\ report.selectedColumns[i].columnId
                                   \in {all[t].columns[c].id, all[t].columns[c].name}
                              /\ a.columns[i] = all[t].columns[c].name
                              /\ a.columns[i] # all[t].columns[c].id
                              /\ a.columns[i] # all[t].columns[c].alias

\* two selected columns that refer by id to the two entries of one table
LiveCallNamesOneTableWitness ==
    \E k \in DOMAIN reqs :
        /\ reqs[k].delegate = "live"
        /\ reqs[k].args.table = "users"
        /\ reqs[k].args.columns = << "id", "id" >>
        /\ report.selectedColumns[1] = [tableId |-> "table1", columnId |-> "col1"]
        /\ report.selectedColumns[2] = [tableId |-> "table2", columnId |-> "col1"]

\* C28: while at least one acquisition is in flight the loading flag is true.
LoadingWhileInFlight ==
    (\E k \in DOMAIN reqs : reqs[k].status = "pending") => loading

----------------------------------------------------------------------------
(* ReportBuilder: data source change and filter edits *)

\* C23: a change of the data source in the builder sets dataSourceId to the
\* chosen id, empties selectedColumns, filters and sorts, and leaves id, name,
\* description, visibility, visualization and schedule as they were.
DsChangeClearsSelections ==
    [][ config'.dataSourceId # config.dataSourceId =>
          /\ config'.dataSourceId \in {"ds1", "ds2"}
          /\ config'.selectedColumns = <<>>
          /\ config'.filters = <<>>
          /\ config'.sorts = <<>>
          /\ config'.id = config.id
          /\ config'.name = config.name
          /\ config'.description = config.description
          /\ config'.visibility = config.visibility
          /\ config'.visualization = config.visualization
          /\ config'.schedule = config.schedule ]_vars

\* the stored report, which came with a column, a filter and a sort on the
\* first source, after the second source was chosen
DsChangeClearsSelectionsWitness ==
    /\ config.id = "report1"
    /\ config.dataSourceId = "ds2"
    /\ config.selectedColumns = <<>>
    /\ config.filters = <<>>
    /\ config.sorts = <<>>
    /\ config.name = "Sales"
    /\ config.visualization = "bar"
    /\ config.schedule.enabled

\* C24: every filter's operator is one of the operators that
\* getOperatorsForType gives for the type of the column the filter references.
FilterOperatorFitsColumn ==
    \A idx \in DOMAIN config.filters :
        config.filters[idx].operator \in operatorOptions(idx)

\* C25: a filter has a populated value2 only while its operator is 'between'.
Value2OnlyForBetween ==
    \A idx \in DOMAIN config.filters :
        ("value2" \in DOMAIN config.filters[idx] /\ config.filters[idx].value2 # "")
            => config.filters[idx].operator = "between"

\* the table or view of the selected source with that id is exposed
isExposedTable(tableId) ==
    \E t \in DOMAIN allTablesAndViews :
        allTablesAndViews[t].id = tableId /\ allTablesAndViews[t].exposed

\* C26: every selected column and every filter references a table or view
\* with exposed = true.
OnlyExposedReferenced ==
    /\ \A i \in DOMAIN config.selectedColumns :
           isExposedTable(config.selectedColumns[i].tableId)
    /\ \A idx \in DOMAIN config.filters :
           isExposedTable(config.filters[idx].tableId)

----------------------------------------------------------------------------
(* App: permissions, overlapping mutations and ownership *)

\* the step appends one call to the API
StartsCall == Len(calls') = Len(calls) + 1

\* the current user owns the listed report with that id or is an admin
MayModify(id) ==
    \E i \in DOMAIN reports :
        /\ reports[i].id = id
        /\ (reports[i].ownerId = currentUser.id \/ currentUser.role = "admin")

\* C22: only the owner or an admin can modify or delete a report: a step in
\* which handleSaveReport or handleDeleteReport calls updateReport or
\* deleteReport is taken by the owner of that report or by an admin, and a step
\* in which a handler answers with a permission alert calls nothing and leaves
\* the reports list as it is.
OnlyOwnerOrAdminMutates ==
    [][ /\ (StartsCall /\ calls'[Len(calls')].kind \in {"update", "delete"})
             => MayModify(calls'[Len(calls')].id)
        /\ (alert' # alert /\ alert' \in
               {"You do not have permission to modify this report.",
                "You do not have permission to delete this report."})
             => (calls' = calls /\ reports' = reports)
        /\ StartsCall => reports' = reports ]_vars

\* Charlie, neither owner nor admin, pressed Save Report in a builder that is
\* open on Bob's report
OnlyOwnerOrAdminMutatesWitness ==
    /\ currentUser.id = "u3"
    /\ alert = "You do not have permission to modify this report."
    /\ currentView = "builder"
    /\ draftId = "r1"
    /\ reports = << [id |-> "r1", ownerId |-> "u2", name |-> "Sales",
                     dataSourceId |-> "ds1", created_at |-> "2024-01-01"] >>
    /\ calls = <<>>

\* the calls to createReport, updateReport or deleteReport that succeeded
Succeeded ==
    { k \in DOMAIN calls :
        calls[k].status = "ok" /\ calls[k].kind \in {"create", "update", "delete"} }

\* C29: when every call has settled and the mutations that succeeded were on
\* different reports, the reports list reflects each of them: a created or
\* updated report is listed as it was sent, a deleted report is not listed.
MutationsAllReflected ==
    ( /\ \A k \in DOMAIN calls : calls[k].status # "pending"
      /\ \A j, k \in Succeeded : j # k => calls[j].id # calls[k].id )
    => \A k \in Succeeded :
          IF calls[k].kind = "delete"
          THEN \A i \in DOMAIN reports : reports[i].id # calls[k].id
          ELSE \E i \in DOMAIN reports :
                  /\ reports[i].id = calls[k].id
                  /\ reports[i].name = calls[k].payload.name
                  /\ reports[i].ownerId = calls[k].payload.ownerId

\* C30: every listed report's ownerId is the id of the user who was current
\* when it was created: for the report that was loaded (created 2024-01-01)
\* the owner it was loaded with, for a report created in the session the user
\* of a createReport call for its id; saves by an admin who is not the owner
\* and data sources attached from the viewer leave it at that.
OwnerIsCreator ==
    \A i \in DOMAIN reports :
        \/ /\ reports[i].created_at = "2024-01-01"
           /\ reports[i].id = "r1"
           /\ reports[i].ownerId = "u2"
        \/ \E k \in DOMAIN calls :
              /\ reports[i].created_at = "now"
              /\ calls[k].kind = "create"
              /\ calls[k].status = "ok"
              /\ calls[k].id = reports[i].id
              /\ calls[k].by = reports[i].ownerId

\* Alice, an admin, saved Bob's report and a data source was attached to it
OwnerIsCreatorWitness ==
    /\ \E k \in DOMAIN calls :
          calls[k].kind = "update" /\ calls[k].by = "u1" /\ calls[k].status = "ok"
    /\ \E k \in DOMAIN calls :
          calls[k].kind = "createDatasource" /\ calls[k].status = "ok"
    /\ reports = << [id |-> "r1", ownerId |-> "u2", name |-> "edited",
                     dataSourceId |-> "ds9", created_at |-> "2024-01-01"] >>

====
